---- MODULE Spec2Model ----
(***************************************************************************)
(* A model of quiz.py: the Question answer key and check_answer, the       *)
(* Player score, the DatabaseHandler over an sqlite3 connection, and the   *)
(* session loop of __main__.                                               *)
(***************************************************************************)
EXTENDS Integers, Sequences, FiniteSets, TLC

VARIABLES
  answers,   \* Question.answers: the list of {answertext, correct} rows
  printed,   \* the order the last get_answers call returned (<<>>: none yet)
  raw,       \* the text typed as a response
  result,    \* what the last check_answer call did (NoResult: not called)
  store,     \* the sqlite3 connection: its view, the committed file, open txn
  player,    \* the Player object (NoPlayer before it is constructed)
  ret,       \* what the last DatabaseHandler / Player call did
  awarded,   \* history: the sum of the points of the score_up calls that returned
  pc,        \* where __main__ is
  qid,       \* __main__'s qid
  question_count  \* __main__'s question_count

vars == <<answers, printed, raw, result, store, player, ret, awarded,
          pc, qid, question_count>>

\* the variables of __main__ alone
mainvars == <<pc, qid, question_count>>

----------------------------------------------------------------------------
(* Bounds of the model *)

MaxAnswers == 3
MaxLen == 3

----------------------------------------------------------------------------
(* Characters and strings. A string is a sequence of one-character strings. *)

\* string.ascii_uppercase
ascii_uppercase ==
  << "A", "B", "C", "D", "E", "F", "G", "H", "I", "J", "K", "L", "M",
     "N", "O", "P", "Q", "R", "S", "T", "U", "V", "W", "X", "Y", "Z" >>

\* the characters a response is typed from: a lower-case and an upper-case
\* letter, a letter far down the alphabet, a digit
Chars == {"a", "B", "z", "1"}

\* str.upper on one character
upper(c) ==
  CASE c = "a" -> "A"
    [] c = "z" -> "Z"
    [] OTHER -> c

\* c in string.ascii_uppercase
InAsciiUppercase(c) == \E i \in 1..Len(ascii_uppercase) : ascii_uppercase[i] = c

\* ord(c) for an upper-case ASCII letter
ord(c) == 64 + (CHOOSE i \in 1..Len(ascii_uppercase) : ascii_uppercase[i] = c)

RECURSIVE SelectUpper(_)
SelectUpper(s) ==
  IF s = <<>> THEN <<>>
  ELSE LET c == upper(Head(s))
       IN (IF InAsciiUppercase(c) THEN <<c>> ELSE <<>>) \o SelectUpper(Tail(s))

\* Question.sanitize_user_answer_to_list
sanitize_user_answer_to_list(user_answer) == SelectUpper(user_answer)

----------------------------------------------------------------------------
(* Outcomes of a call: a returned value or a raised exception *)

NoResult == [kind |-> "none", val |-> FALSE, msg |-> "", n |-> 0, tail |-> ""]

Return(b) == [kind |-> "return", val |-> b, msg |-> "", n |-> 0, tail |-> ""]

\* raise ValueError(msg + str(n) + tail); n = 0 where no number is printed
ValueError(m, k, t) ==
  [kind |-> "ValueError", val |-> FALSE, msg |-> m, n |-> k, tail |-> t]

----------------------------------------------------------------------------
(* The sqlite3 connection behind DatabaseHandler._cursor.                   *)
(* view: the tables as the connection reads them, uncommitted changes       *)
(* included; disk: the committed file; intx: a transaction is open.         *)
(* INSERT and UPDATE open a transaction; DROP and CREATE run in it when one *)
(* is open and are committed at once when none is.                          *)

TableNames == {"questions", "answers", "players"}

EmptyData == [tables |-> {}, questions |-> {}, answers |-> {}, players |-> {}]

\* sqlite3.connect on a file that does not exist yet
NewStore == [view |-> EmptyData, disk |-> EmptyData, intx |-> FALSE]

\* DROP TABLE IF EXISTS t
DropTable(d, t) ==
  [d EXCEPT !.tables = @ \ {t}, ![t] = {}]

\* CREATE TABLE t
CreateTable(d, t) == [d EXCEPT !.tables = @ \cup {t}]

ExecDDL(s, d) ==
  [view |-> d, disk |-> IF s.intx THEN s.disk ELSE d, intx |-> s.intx]

ExecDML(s, d) == [view |-> d, disk |-> s.disk, intx |-> TRUE]

\* connection.commit()
Commit(s) == [view |-> s.view, disk |-> s.view, intx |-> FALSE]

\* the open transaction is rolled back: by sqlite on some commit errors, and
\* when the connection is closed or the process ends
Rollback(s) == [view |-> s.disk, disk |-> s.disk, intx |-> FALSE]

\* how a statement followed by a commit can end: both done, the statement
\* raises, the commit raises and the transaction stays open, the commit
\* raises and sqlite rolls the transaction back
Outcomes == {"ok", "execute", "commit_open", "commit_rollback"}

\* cursor.execute(DML changing the view to d) ; connection.commit()
ExecuteAndCommit(s, d, outcome) ==
  CASE outcome = "ok" -> Commit(ExecDML(s, d))
    [] outcome = "execute" -> s
    [] outcome = "commit_open" -> ExecDML(s, d)
    [] outcome = "commit_rollback" -> Rollback(ExecDML(s, d))

----------------------------------------------------------------------------
(* Seed data *)

NumQuestions == 2
NumPlaceholders == 5

\* chr(n) for the code of an upper-case ASCII letter
chr(n) == ascii_uppercase[n - 64]

\* the rows of seeddata_questions.csv: ids 0 .. NumQuestions-1
SeedQuestions == { [id |-> q, questiontext |-> q] : q \in 0..(NumQuestions - 1) }

\* the rows of seeddata_answers.csv: an even question has two answers, the
\* first of them correct; an odd one has three, the first two correct
SeedAnswers ==
  { [id |-> 3 * pr[1] + pr[2], questionid |-> pr[1],
     answertext |-> pr[2] + 1, correct |-> IF pr[2] <= (pr[1] % 2) THEN 1 ELSE 0] :
    pr \in { x \in (0..(NumQuestions - 1)) \X (0..2) : x[2] <= 1 + (x[1] % 2) } }

\* players = [(i,"Person "+chr(i+65),i+1) for i in range(5)]
SeedPlayers ==
  { [id |-> i, name |-> <<"Person ", chr(i + 65)>>, score |-> i + 1] :
    i \in 0..(NumPlaceholders - 1) }

----------------------------------------------------------------------------
(* DatabaseHandler *)

\* the rows of a set in ascending id order (the order sqlite scans a table)
RECURSIVE ByIdAsc(_)
ByIdAsc(rows) ==
  IF rows = {} THEN <<>>
  ELSE LET r == CHOOSE x \in rows : \A y \in rows : x.id <= y.id
       IN <<r>> \o ByIdAsc(rows \ {r})

\* ORDER BY id DESC, id DESC
RECURSIVE ByIdDesc(_)
ByIdDesc(rows) ==
  IF rows = {} THEN <<>>
  ELSE LET r == CHOOSE x \in rows : \A y \in rows : x.id >= y.id
       IN <<r>> \o ByIdDesc(rows \ {r})

\* ORDER BY score DESC, id DESC, for the mutant of get_highscores below
RECURSIVE ByScoreDesc(_)
ByScoreDesc(rows) ==
  IF rows = {} THEN <<>>
  ELSE LET r == CHOOSE x \in rows : \A y \in rows :
                  x.score > y.score \/ (x.score = y.score /\ x.id >= y.id)
       IN <<r>> \o ByScoreDesc(rows \ {r})

\* a mutant of LIMIT: one row too many
LimitOneMore(rows, count) ==
  SubSeq(rows, 1, IF count + 1 < Len(rows) THEN count + 1 ELSE Len(rows))

\* LIMIT count, for count >= 0
Limit(rows, count) == SubSeq(rows, 1, IF count < Len(rows) THEN count ELSE Len(rows))

\* DatabaseHandler.get_question_count; the caller checks the table exists
get_question_count(d) == Cardinality(d.questions)

\* DatabaseHandler.get_answers: answertext and correct of the question's rows
get_answers(d, questionid) ==
  LET rows == ByIdAsc({ r \in d.answers : r.questionid = questionid })
  IN [i \in 1..Len(rows) |->
        [answertext |-> rows[i].answertext, correct |-> rows[i].correct]]

\* a mutant of get_highscores: ranked by score, the newer player first in a tie
HighscoreOrderByScore(d) == ByScoreDesc(d.players)

\* SELECT id,name,score FROM players ORDER BY id DESC, id DESC
HighscoreOrder(d) == ByIdDesc(d.players)

\* DatabaseHandler.get_highscores; the caller checks the table exists
get_highscores(d, count) == Limit(HighscoreOrder(d), count)

\* the rowid sqlite gives a row inserted without one: one more than the
\* largest in the table, 1 in an empty table
NextRowid(rows) ==
  IF rows = {} THEN 1
  ELSE (CHOOSE x \in { r.id : r \in rows } :
          \A y \in { r.id : r \in rows } : x >= y) + 1

\* DatabaseHandler.create_player: the store after it
create_player(s, name, outcome) ==
  ExecuteAndCommit(s,
    [s.view EXCEPT !.players =
       @ \cup { [id |-> NextRowid(s.view.players), name |-> name, score |-> 0] }],
    outcome)

\* DatabaseHandler.set_score: the store after it
set_score(s, playerid, score, outcome) ==
  ExecuteAndCommit(s,
    [s.view EXCEPT !.players =
       { IF r.id = playerid THEN [r EXCEPT !.score = score] ELSE r : r \in @ }],
    outcome)

\* DatabaseHandler.check_db_ready: the three SELECTs succeed
check_db_ready(d) == TableNames \subseteq d.tables

\* the statements of reset_db, in order; each can raise
ResetSteps ==
  << "drop questions", "drop answers", "drop players",
     "create questions", "create answers", "create players",
     "read questions", "insert questions",
     "read answers", "insert answers",
     "insert players", "commit" >>

\* one statement of reset_db
ResetStep(s, step) ==
  CASE step = "drop questions" -> ExecDDL(s, DropTable(s.view, "questions"))
    [] step = "drop answers" -> ExecDDL(s, DropTable(s.view, "answers"))
    [] step = "drop players" -> ExecDDL(s, DropTable(s.view, "players"))
    [] step = "create questions" -> ExecDDL(s, CreateTable(s.view, "questions"))
    [] step = "create answers" -> ExecDDL(s, CreateTable(s.view, "answers"))
    [] step = "create players" -> ExecDDL(s, CreateTable(s.view, "players"))
    [] step = "read questions" -> s
    [] step = "insert questions" ->
         ExecDML(s, [s.view EXCEPT !.questions = @ \cup SeedQuestions])
    [] step = "read answers" -> s
    [] step = "insert answers" ->
         ExecDML(s, [s.view EXCEPT !.answers = @ \cup SeedAnswers])
    [] step = "insert players" ->
         ExecDML(s, [s.view EXCEPT !.players = @ \cup SeedPlayers])
    [] step = "commit" -> Commit(s)

\* DatabaseHandler.reset_db: the store after the statements before failAt
\* have run and statement failAt has raised (failAt past the last: none has)
RECURSIVE reset_db(_, _, _)
reset_db(s, failAt, k) ==
  IF k > Len(ResetSteps) \/ k = failAt THEN s
  ELSE reset_db(ResetStep(s, ResetSteps[k]), failAt, k + 1)

----------------------------------------------------------------------------
(* Player *)

MaxScore == 4
MaxPoints == 2
MaxPlayers == 2
MaxLimit == 3

NoPlayer == [id |-> -1, name |-> <<>>, score |-> 0]

\* the names typed at the prompt
Names == { <<"A", "d", "a">> }

\* what a call did: whether it returned (ok) or raised (exc), and its value
NoRet == [op |-> "none", ok |-> TRUE, exc |-> "", b |-> FALSE, n |-> 0,
          before |-> 0, rows |-> <<>>]

Returned(op) == [NoRet EXCEPT !.op = op]
Raised(op, exc) == [NoRet EXCEPT !.op = op, !.ok = FALSE, !.exc = exc]

\* Player.__init__: the object built from the id create_player returned
NewPlayerObject(id, name) == [id |-> id, name |-> name, score |-> 0]

\* a mutant of score_up: self.score is assigned before set_score is called
ScoreUpAssignFirst(s, p, points, outcome) ==
  [store |-> set_score(s, p.id, p.score + points, outcome),
   player |-> [p EXCEPT !.score = p.score + points],
   exc |-> IF outcome = "ok" THEN "" ELSE "sqlite3.Error"]

\* Player.score_up: newscore, set_score, then self.score = newscore
score_up(s, p, points, outcome) ==
  LET newscore == p.score + points
  IN [store |-> set_score(s, p.id, newscore, outcome),
      player |-> IF outcome = "ok" THEN [p EXCEPT !.score = newscore] ELSE p,
      exc |-> IF outcome = "ok" THEN "" ELSE "sqlite3.Error"]

\* a mutant of score_down: return self.score_up(-points)
ScoreDownCallsScoreUp(s, p, points, outcome) == score_up(s, p, -points, outcome)

\* Player.score_down: self.score_up(self, -points) passes three arguments to
\* a method that takes two, so the call raises TypeError before it runs
score_down(s, p, points, outcome) ==
  [store |-> s, player |-> p, exc |-> "TypeError"]

----------------------------------------------------------------------------
(* The handler and the player, called in any order: SpecStore *)

\* dbh.check_db_ready()
CheckDbReady ==
  /\ ret' = [Returned("check_db_ready") EXCEPT !.b = check_db_ready(store.view)]
  /\ UNCHANGED <<answers, printed, raw, result, store, player, awarded, mainvars>>

\* dbh.reset_db(), called as __main__ calls it: before the Player is built
ResetDb ==
  /\ player = NoPlayer
  /\ \E failAt \in 1..(Len(ResetSteps) + 1) :
       /\ store' = reset_db(store, failAt, 1)
       /\ ret' = IF failAt > Len(ResetSteps)
                   THEN [Returned("reset_db") EXCEPT !.n = failAt]
                   ELSE [Raised("reset_db", "Error") EXCEPT !.n = failAt]
  /\ UNCHANGED <<answers, printed, raw, result, player, awarded, mainvars>>

\* Player(dbh, name)
NewPlayer ==
  /\ player = NoPlayer
  /\ Cardinality(store.view.players \ SeedPlayers) < MaxPlayers
  /\ \E name \in Names, outcome \in Outcomes :
       IF "players" \notin store.view.tables
         THEN /\ ret' = Raised("Player", "sqlite3.Error")
              /\ UNCHANGED <<store, player, awarded, mainvars>>
         ELSE /\ store' = create_player(store, name, outcome)
              /\ IF outcome = "ok"
                   THEN /\ player' = NewPlayerObject(NextRowid(store.view.players), name)
                        /\ ret' = [Returned("Player") EXCEPT
                                     !.n = NextRowid(store.view.players)]
                   ELSE /\ player' = player
                        /\ ret' = Raised("Player", "sqlite3.Error")
              /\ awarded' = 0
  /\ UNCHANGED <<answers, printed, raw, result, mainvars>>

\* player.score_up(points)
ScoreUp ==
  /\ player # NoPlayer
  /\ \E points \in 1..MaxPoints, outcome \in Outcomes :
       /\ player.score + points <= MaxScore
       /\ LET r == score_up(store, player, points, outcome)
          IN /\ store' = r.store
             /\ player' = r.player
             /\ awarded' = IF r.exc = "" THEN awarded + points ELSE awarded
             /\ ret' = [(IF r.exc = "" THEN Returned("score_up")
                         ELSE Raised("score_up", r.exc))
                        EXCEPT !.n = points, !.before = player.score]
  /\ UNCHANGED <<answers, printed, raw, result, mainvars>>

\* player.score_down(points)
ScoreDown ==
  /\ player # NoPlayer
  /\ \E points \in 1..MaxPoints, outcome \in Outcomes :
       LET r == score_down(store, player, points, outcome)
       IN /\ store' = r.store
          /\ player' = r.player
          /\ awarded' = IF r.exc = "" THEN awarded - points ELSE awarded
          /\ ret' = [(IF r.exc = "" THEN Returned("score_down")
                      ELSE Raised("score_down", r.exc))
                     EXCEPT !.n = points, !.before = player.score]
  /\ UNCHANGED <<answers, printed, raw, result, mainvars>>

\* dbh.get_highscores(count)
GetHighscores ==
  /\ \E count \in 0..MaxLimit :
       ret' = IF "players" \notin store.view.tables
                THEN [Raised("get_highscores", "sqlite3.Error") EXCEPT !.n = count]
                ELSE [Returned("get_highscores") EXCEPT
                        !.n = count, !.rows = get_highscores(store.view, count)]
  /\ UNCHANGED <<answers, printed, raw, result, store, player, awarded, mainvars>>

\* db.close(), or the process ends on an exception; the program is run again
Reopen ==
  /\ store' = Rollback(store)
  /\ player' = NoPlayer
  /\ awarded' = 0
  /\ ret' = Returned("connect")
  /\ UNCHANGED <<answers, printed, raw, result, mainvars>>

InitStore ==
  /\ answers = <<>>
  /\ printed = <<>>
  /\ raw = <<>>
  /\ result = NoResult
  /\ store = NewStore
  /\ player = NoPlayer
  /\ ret = NoRet
  /\ awarded = 0
  /\ pc = "none"
  /\ qid = 0
  /\ question_count = 0

NextStore ==
  \/ CheckDbReady
  \/ ResetDb
  \/ NewPlayer
  \/ ScoreUp
  \/ ScoreDown
  \/ GetHighscores
  \/ Reopen

SpecStore == InitStore /\ [][NextStore]_vars

----------------------------------------------------------------------------
(* Question *)

\* Question.get_correct_answer_count
get_correct_answer_count(ans) ==
  Cardinality({i \in 1..Len(ans) : ans[i].correct = 1})

\* a mutant of the loop of check_answer: a letter chosen twice is refused
RECURSIVE CheckLoopNoRepeat(_, _, _)
CheckLoopNoRepeat(ans, user_answer, i) ==
  IF i > Len(user_answer) THEN Return(TRUE)
  ELSE LET answer_index == ord(user_answer[i]) - ord("A")
       IN IF answer_index >= Len(ans) \/ answer_index < 0
            THEN ValueError("Invalid selection: ", 0, user_answer[i])
          ELSE IF ans[answer_index + 1].correct = 0
                  \/ \E j \in 1..(i - 1) : user_answer[j] = user_answer[i]
            THEN Return(FALSE)
          ELSE CheckLoopNoRepeat(ans, user_answer, i + 1)

\* the loop of check_answer over the sanitized response, from position i
RECURSIVE CheckLoop(_, _, _)
CheckLoop(ans, user_answer, i) ==
  IF i > Len(user_answer) THEN Return(TRUE)
  ELSE LET answer_index == ord(user_answer[i]) - ord("A")
       IN IF answer_index >= Len(ans) \/ answer_index < 0
            THEN ValueError("Invalid selection: ", 0, user_answer[i])
          ELSE IF ans[answer_index + 1].correct = 0
            THEN Return(FALSE)
          ELSE CheckLoop(ans, user_answer, i + 1)

\* a mutant of check_answer: the count is checked before the empty response
CheckAnswerCountFirst(ans, response) ==
  LET user_answer == sanitize_user_answer_to_list(response)
      ans_count == get_correct_answer_count(ans)
  IN IF Len(user_answer) # ans_count
       THEN ValueError("This question has ", ans_count,
                       IF ans_count > 1 THEN " answers" ELSE " answer")
     ELSE IF Len(user_answer) = 0
       THEN ValueError("No answer selected", 0, "")
     ELSE CheckLoop(ans, user_answer, 1)

\* Question.check_answer
check_answer(ans, response) ==
  LET user_answer == sanitize_user_answer_to_list(response)
      ans_count == get_correct_answer_count(ans)
  IN IF Len(user_answer) = 0
       THEN ValueError("No answer selected", 0, "")
     ELSE IF Len(user_answer) # ans_count
       THEN ValueError("This question has ", ans_count,
                       IF ans_count > 1 THEN " answers" ELSE " answer")
     ELSE CheckLoop(ans, user_answer, 1)

\* random.shuffle: every order of the list is a possible outcome
shuffle(ans) ==
  { [i \in 1..Len(ans) |-> ans[p[i]]] : p \in Permutations(1..Len(ans)) }

\* the answer keys a store can hold for one question, in storage order:
\* one to MaxAnswers answers, at least one of them correct
AnswerKeys ==
  UNION { { [i \in 1..n |-> [answertext |-> i, correct |-> f[i]]] :
              f \in { g \in [1..n -> {0, 1}] : \E i \in 1..n : g[i] = 1 } } :
          n \in 1..MaxAnswers }

\* the responses a user can type
RECURSIVE StringsUpTo(_)
StringsUpTo(n) ==
  IF n = 0 THEN { <<>> }
  ELSE LET shorter == StringsUpTo(n - 1)
       IN shorter \cup { Append(s, c) : s \in { t \in shorter : Len(t) = n - 1 },
                                        c \in Chars }

Responses == StringsUpTo(MaxLen)


\* Question.get_answers
GetAnswers ==
  /\ \E order \in shuffle(answers) :
       /\ answers' = order
       /\ printed' = order
  /\ result' = NoResult
  /\ UNCHANGED <<raw, store, player, ret, awarded, mainvars>>

\* a call of Question.check_answer with the typed response
CheckAnswer ==
  /\ result' = check_answer(answers, raw)
  /\ UNCHANGED <<answers, printed, raw, store, player, ret, awarded, mainvars>>

\* a Question built from one stored answer key, and one typed response
InitQuestion ==
  /\ answers \in AnswerKeys
  /\ printed = <<>>
  /\ raw \in Responses
  /\ result = NoResult
  /\ store = NewStore
  /\ player = NoPlayer
  /\ ret = NoRet
  /\ awarded = 0
  /\ pc = "none"
  /\ qid = 0
  /\ question_count = 0

NextQuestion == GetAnswers \/ CheckAnswer

SpecQuestion == InitQuestion /\ [][NextQuestion]_vars

----------------------------------------------------------------------------
(* __main__: one run of the program after another *)

DefaultHighscoreCount == 1

\* what can be typed at the name prompt: a name, nothing, a space
NameInputs == Names \cup { <<>>, <<" ">> }

\* name.strip() == ""
IsBlank(name) == \A i \in 1..Len(name) : name[i] = " "

\* a mutant of the response loop: qid += 1 whatever check_answer did
AdvanceAlways(q, res) == q + 1

\* the response loop and qid += 1: a ValueError is printed and the question
\* asked again, a returned True or False leaves the loop
Advance(q, res) == IF res.kind = "ValueError" THEN q ELSE q + 1

\* connect; if not dbh.check_db_ready(): dbh.reset_db()
Boot ==
  /\ pc = "start"
  /\ IF check_db_ready(store.view)
       THEN /\ pc' = "name"
            /\ ret' = [Returned("check_db_ready") EXCEPT !.b = TRUE]
            /\ UNCHANGED store
       ELSE \E failAt \in 1..(Len(ResetSteps) + 1) :
              /\ store' = reset_db(store, failAt, 1)
              /\ IF failAt > Len(ResetSteps)
                   THEN /\ pc' = "name"
                        /\ ret' = [Returned("reset_db") EXCEPT !.n = failAt]
                   ELSE /\ pc' = "aborted"
                        /\ ret' = [Raised("reset_db", "Error") EXCEPT !.n = failAt]
  /\ UNCHANGED <<answers, printed, raw, result, player, awarded, qid, question_count>>

\* the name prompt, Player(dbh,name), qid = 0, get_question_count
EnterName ==
  /\ pc = "name"
  /\ Cardinality(store.view.players \ SeedPlayers) < MaxPlayers
  /\ \E name \in NameInputs, outcome \in Outcomes :
       IF IsBlank(name)
         THEN UNCHANGED <<store, player, ret, awarded, pc, qid, question_count>>
         ELSE /\ store' = create_player(store, name, outcome)
              /\ awarded' = 0
              /\ IF outcome = "ok"
                   THEN /\ player' = NewPlayerObject(NextRowid(store.view.players), name)
                        /\ ret' = [Returned("Player") EXCEPT
                                     !.n = NextRowid(store.view.players)]
                        /\ qid' = 0
                        /\ question_count' = get_question_count(store.view)
                        /\ pc' = "loop"
                   ELSE /\ ret' = Raised("Player", "sqlite3.Error")
                        /\ pc' = "aborted"
                        /\ UNCHANGED <<player, qid, question_count>>
  /\ UNCHANGED <<answers, printed, raw, result>>

\* while qid < question_count: Question(dbh,qid), get_answers, the display
AskQuestion ==
  /\ pc = "loop"
  /\ qid < question_count
  /\ IF \E r \in store.view.questions : r.id = qid
       THEN /\ \E order \in shuffle(get_answers(store.view, qid)) :
                 /\ answers' = order
                 /\ printed' = order
            /\ pc' = "ask"
            /\ ret' = Returned("Question")
       ELSE /\ pc' = "aborted"
            /\ ret' = Raised("Question", "TypeError")
            /\ UNCHANGED <<answers, printed>>
  /\ result' = NoResult
  /\ UNCHANGED <<raw, store, player, awarded, qid, question_count>>

\* the response prompt, check_answer, score_up on True, qid += 1
Respond ==
  /\ pc = "ask"
  /\ \E response \in Responses :
       LET res == check_answer(answers, response)
           points == get_correct_answer_count(answers)
       IN /\ result' = res
          /\ IF res = Return(TRUE)
               THEN \E outcome \in Outcomes :
                      LET r == score_up(store, player, points, outcome)
                      IN /\ store' = r.store
                         /\ player' = r.player
                         /\ IF r.exc = ""
                              THEN /\ awarded' = awarded + points
                                   /\ ret' = Returned("score_up")
                                   /\ qid' = Advance(qid, res)
                                   /\ pc' = "loop"
                              ELSE /\ ret' = Raised("score_up", r.exc)
                                   /\ pc' = "aborted"
                                   /\ UNCHANGED <<awarded, qid>>
               ELSE /\ qid' = Advance(qid, res)
                    /\ pc' = IF qid' = qid THEN "ask" ELSE "loop"
                    /\ ret' = Returned("check_answer")
                    /\ UNCHANGED <<store, player, awarded>>
  /\ UNCHANGED <<answers, printed, raw, question_count>>

\* after the loop: the final score and dbh.get_highscores()
Finish ==
  /\ pc = "loop"
  /\ ~(qid < question_count)
  /\ ret' = [Returned("get_highscores") EXCEPT
               !.n = DefaultHighscoreCount,
               !.rows = get_highscores(store.view, DefaultHighscoreCount)]
  /\ pc' = "done"
  /\ UNCHANGED <<answers, printed, raw, result, store, player, awarded,
                 qid, question_count>>

\* db.close() or the uncaught exception ends the process; it is run again
Restart ==
  /\ pc \in {"done", "aborted"}
  /\ store' = Rollback(store)
  /\ player' = NoPlayer
  /\ awarded' = 0
  /\ answers' = <<>>
  /\ printed' = <<>>
  /\ result' = NoResult
  /\ ret' = Returned("connect")
  /\ pc' = "start"
  /\ qid' = 0
  /\ question_count' = 0
  /\ UNCHANGED raw

InitMain ==
  /\ answers = <<>>
  /\ printed = <<>>
  /\ raw = <<>>
  /\ result = NoResult
  /\ store = NewStore
  /\ player = NoPlayer
  /\ ret = NoRet
  /\ awarded = 0
  /\ pc = "start"
  /\ qid = 0
  /\ question_count = 0

NextMain ==
  \/ Boot
  \/ EnterName
  \/ AskQuestion
  \/ Respond
  \/ Finish
  \/ Restart

SpecMain == InitMain /\ [][NextMain]_vars

----------------------------------------------------------------------------
(* Claims about Question, checked under SpecQuestion *)

Normalized == sanitize_user_answer_to_list(raw)

\* the letter maps to an index inside the answer list
InRange(c) == ord(c) - ord("A") >= 0 /\ ord(c) - ord("A") < Len(answers)

Called == result.kind # "none"

\* C1: a response whose normalized form has as many letters as the key has
\* correct answers, every letter mapping to an in-range answer flagged
\* correct, makes check_answer return True, a repeated letter included.
C1_AllCorrectReturnsTrue ==
  ( /\ Called
    /\ Len(Normalized) = get_correct_answer_count(answers)
    /\ \A i \in 1..Len(Normalized) :
         /\ InRange(Normalized[i])
         /\ answers[ord(Normalized[i]) - ord("A") + 1].correct = 1 )
  => result = Return(TRUE)

\* check_answer has returned True for a response that names one letter twice
C1_Witness ==
  /\ result = Return(TRUE)
  /\ \E i, j \in 1..Len(Normalized) : i < j /\ Normalized[i] = Normalized[j]

\* C2: a response of the required length that holds an out-of-range letter
\* always fails with ValueError naming such a letter, and never returns a
\* boolean.
C2_OutOfRangeAlwaysRaises ==
  ( /\ Called
    /\ Len(Normalized) = get_correct_answer_count(answers)
    /\ \E i \in 1..Len(Normalized) : ~InRange(Normalized[i]) )
  => /\ result.kind = "ValueError"
     /\ result.msg = "Invalid selection: "
     /\ \E i \in 1..Len(Normalized) :
          ~InRange(Normalized[i]) /\ result.tail = Normalized[i]

\* C3: a response whose normalized length differs from the number of correct
\* answers fails with ValueError and returns no boolean; the empty one with
\* "No answer selected", any other with the message naming the count.
C3_WrongLengthRaises ==
  ( Called /\ Len(Normalized) # get_correct_answer_count(answers) )
  => /\ result.kind = "ValueError"
     /\ IF Len(Normalized) = 0
          THEN result = ValueError("No answer selected", 0, "")
          ELSE /\ result.msg = "This question has "
               /\ result.n = get_correct_answer_count(answers)
               /\ result.tail = IF result.n > 1 THEN " answers" ELSE " answer"

\* check_answer has refused, by the count, a response that held characters
\* to discard and letters to keep
C3_Witness ==
  /\ result.msg = "This question has "
  /\ result.n = 2
  /\ Len(Normalized) > 0
  /\ Len(raw) > Len(Normalized)

\* C4: every get_answers call on one Question returns the order the first
\* call returned, and that order is the one check_answer indexes.
C4_ShuffledOnce ==
  [][ /\ (printed # <<>> => printed' = printed)
      /\ (printed' # <<>> => answers' = printed') ]_vars

----------------------------------------------------------------------------
(* Claims about Player and DatabaseHandler, checked under SpecStore *)

\* the scores the committed file holds for the player id
StoredScores(id) == { r.score : r \in { x \in store.disk.players : x.id = id } }

HasPlayer == player # NoPlayer

\* C5: after any score_up calls on a new player the score in memory is the
\* score stored for the player and the sum of the points of the calls that
\* returned; a call whose set_score raised has raised too and has left the
\* score in memory as it was.
C5_ScoreMatchesStore ==
  HasPlayer =>
    /\ StoredScores(player.id) = {player.score}
    /\ player.score = awarded
    /\ (ret.op = "score_up" /\ ~ret.ok => player.score = ret.before)
    /\ (ret.op = "score_up" /\ ret.ok => player.score = ret.before + ret.n)

\* score_up(1) has returned on a score of 2: 3 in memory and in the file
C5_Witness ==
  /\ HasPlayer
  /\ player.score = 3
  /\ StoredScores(player.id) = {3}
  /\ ret.op = "score_up" /\ ret.ok /\ ret.n = 1 /\ ret.before = 2

AllScores ==
  { r.score : r \in store.view.players \cup store.disk.players } \cup {player.score}

Ids(rows) == { r.id : r \in rows }

FullySeeded(d) ==
  /\ SeedQuestions \subseteq d.questions
  /\ SeedAnswers \subseteq d.answers
  /\ Ids(SeedPlayers) \subseteq Ids(d.players)

\* C8: a reset_db that raised leaves the store not ready (check_db_ready
\* returns False) or fully seeded.
C8_FailedResetNotReady ==
  (ret.op = "reset_db" /\ ~ret.ok) =>
    (~check_db_ready(store.view) \/ FullySeeded(store.view))

----------------------------------------------------------------------------
(* Claims about __main__, checked under SpecMain *)

\* C9: within one run, a response that check_answer refuses with ValueError
\* leaves qid, the player, the store and the question as they were and the
\* same question is asked again; qid changes only by one, and only on a
\* response for which check_answer returned True or False.
C9_InvalidInputAsksAgain ==
  [][ /\ (pc = "ask" /\ result'.kind = "ValueError"
            => /\ qid' = qid
               /\ player' = player
               /\ store' = store
               /\ answers' = answers
               /\ pc' = "ask")
      /\ (qid' # qid /\ pc' # "start"
            => /\ qid' = qid + 1
               /\ pc = "ask"
               /\ result'.kind = "return") ]_vars

\* the second question is being asked again after a refused response, the
\* first one having been answered correctly
C9_Witness ==
  /\ pc = "ask"
  /\ result.kind = "ValueError"
  /\ qid = 1
  /\ player.score = 1

====
